---- MODULE Spec2Model ----
(***************************************************************************)
(* Indian Poker: the round-level betting protocol, the hand scorer and the *)
(* chip accounting of IPGame (src/src/IndianPokerCompetition.py).          *)
(*                                                                         *)
(* One behaviour is one call of IPGame.playGame on a freshly constructed   *)
(* game.  Points are counted in tenths (0.5 is 5, 1.0 is 10).              *)
(***************************************************************************)
EXTENDS Integers, Sequences, FiniteSets, TLC

\* ------------------------------------------------------------------ bounds
MaxRank == 3        \* cards are dealt among the ranks 1..MaxRank of the deck
MaxChips == 3       \* starting_chips ranges over blind..MaxChips
MaxBlind == 2       \* blind ranges over 1..MaxBlind
MaxLen == 2         \* max_length ranges over 1..MaxLen
MaxBet == 3         \* an agent returns a bet in 0..MaxBet
MaxSeed == 2        \* the tournament's seed ranges over 0..MaxSeed
MaxGames == 3       \* num_games ranges over 0..MaxGames
MaxRuns == 2        \* playTournament is called at most MaxRuns times
MaxResets == 2      \* IPTournament.reset is called at most MaxResets times

\* ------------------------------------------------------- program constants
TopRank == 10       \* the deck holds the ranks 1..10, four copies of each
DefaultStartingChips == 20      \* IPGame.__init__: starting_chips
DefaultBlind == 1               \* IPGame.__init__: blind
DefaultMaxLength == 100000      \* IPGame.__init__: max_length

Ranks == 1..TopRank

DealtRanks == { r \in Ranks : r <= MaxRank }

Min(x, y) == IF x <= y THEN x ELSE y

Max(x, y) == IF x >= y THEN x ELSE y

\* sorted([card, common1, common2]) as a sequence of length 3
Sorted3(x, y, z) ==
    LET lo == Min(x, Min(y, z))
        hi == Max(x, Max(y, z))
    IN  <<lo, x + y + z - lo - hi, hi>>

\* calculateScore without the two wrap-around cases
calculateScoreNoWrap(card, c1, c2) ==
    LET straight == Sorted3(card, c1, c2)
    IN  IF /\ straight[2] = (straight[1] % 10) + 1
           /\ straight[3] = (straight[2] % 10) + 1
        THEN 20 + straight[3]
        ELSE IF card = c1 /\ c1 = c2 THEN 20 + card
        ELSE IF card = c1 \/ card = c2 THEN 10 + card
        ELSE card

\* calculateScore with the values of the two wrap-around cases exchanged
calculateScoreWrapSwapped(card, c1, c2) ==
    LET straight == Sorted3(card, c1, c2)
    IN  IF straight = <<1, 9, 10>> THEN 22
        ELSE IF straight = <<1, 2, 10>> THEN 21
        ELSE IF /\ straight[2] = (straight[1] % 10) + 1
                /\ straight[3] = (straight[2] % 10) + 1
             THEN 20 + straight[3]
        ELSE IF card = c1 /\ c1 = c2 THEN 20 + card
        ELSE IF card = c1 \/ card = c2 THEN 10 + card
        ELSE card

\* calculateScore with the pair looked for in the first community card only
calculateScorePairFirst(card, c1, c2) ==
    LET straight == Sorted3(card, c1, c2)
    IN  IF straight = <<1, 9, 10>> THEN 21
        ELSE IF straight = <<1, 2, 10>> THEN 22
        ELSE IF /\ straight[2] = (straight[1] % 10) + 1
                /\ straight[3] = (straight[2] % 10) + 1
             THEN 20 + straight[3]
        ELSE IF card = c1 /\ c1 = c2 THEN 20 + card
        ELSE IF card = c1 THEN 10 + card
        ELSE card

\* IPGame.calculateScore
calculateScore(card, c1, c2) ==
    LET straight == Sorted3(card, c1, c2)
    IN  IF straight = <<1, 9, 10>> THEN 21
        ELSE IF straight = <<1, 2, 10>> THEN 22
        ELSE IF /\ straight[2] = (straight[1] % 10) + 1
                /\ straight[3] = (straight[2] % 10) + 1
             THEN 20 + straight[3]
        ELSE IF card = c1 /\ c1 = c2 THEN 20 + card
        ELSE IF card = c1 \/ card = c2 THEN 10 + card
        ELSE card

\* showdown with the comparison reversed: the lower score wins
showdownLowWins(ac, bc, c1, c2) ==
    LET score_a == calculateScore(ac, c1, c2)
        score_b == calculateScore(bc, c1, c2)
    IN  IF score_a = score_b THEN "DRAW"
        ELSE IF score_a < score_b THEN "A_WIN"
        ELSE "B_WIN"

\* showdown with the comparison slipped to >=: a draw counts as A's win
showdownDrawToA(ac, bc, c1, c2) ==
    IF calculateScore(ac, c1, c2) >= calculateScore(bc, c1, c2) THEN "A_WIN" ELSE "B_WIN"

\* the game playTournament constructs for seed i: IPGame.__init__ with its defaults
NewGame(i, afirst) ==
    [seed |-> i, a_first |-> afirst,
     a_chips |-> DefaultStartingChips, b_chips |-> DefaultStartingChips,
     blind |-> DefaultBlind, max_length |-> DefaultMaxLength]

NoGame == [seed |-> 0, a_first |-> FALSE, a_chips |-> 0, b_chips |-> 0,
           blind |-> 0, max_length |-> 0]

\* the total overwritten with the last game's points instead of increased
AddPointsOverwrite(total, add) == add

\* the points playTournament adds to a total
AddPoints(total, add) == total + add

\* the first-to-act flag taken from the opposite parity
AFirstForOdd(i) == i % 2 = 1

\* the first-to-act flag playTournament passes for seed i
AFirstFor(i) == i % 2 = 0

\* IPGame.showdown
showdown(ac, bc, c1, c2) ==
    LET score_a == calculateScore(ac, c1, c2)
        score_b == calculateScore(bc, c1, c2)
    IN  IF score_a = score_b THEN "DRAW"
        ELSE IF score_a > score_b THEN "A_WIN"
        ELSE "B_WIN"

\* the clamp taken on the larger stack
AllInOnMax(bet, ac, bc) ==
    IF bet >= Max(ac, bc) THEN Max(ac, bc) ELSE bet

\* the all-in clamp of playRound
AllIn(bet, ac, bc) ==
    IF bet >= Min(ac, bc) THEN Min(ac, bc) ELSE bet

\* the raise test slipped to >=: a call reopens the other side's option too
IsRaiseOrCall(proposed_bet, cur) == proposed_bet >= cur

\* an accepted bet above the current level is a raise and reopens the other
\* side's option
IsRaise(proposed_bet, cur) == proposed_bet > cur

\* the penalty with the comparison slipped to >=: a tied folder is charged too
FoldPenaltyOnTie(own, other) ==
    IF own >= other
    THEN IF own > 20 THEN 10 ELSE IF own > 10 THEN 5 ELSE 0
    ELSE 0

\* the chips a folder with score own pays on top of the bet level
FoldPenalty(own, other) ==
    IF own > other
    THEN IF own > 20 THEN 10 ELSE IF own > 10 THEN 5 ELSE 0
    ELSE 0

\* the fold branch with the opponent's credit forgotten
FoldResolutionNoCredit(aturn, ac, bc, paid) ==
    IF aturn
    THEN [a_chips |-> ac - paid, b_chips |-> bc, a_first |-> FALSE]
    ELSE [a_chips |-> ac, b_chips |-> bc - paid, a_first |-> TRUE]

\* the fold branch with the a_first assignments swapped: the folder acts first next
FoldResolutionFolderFirst(aturn, ac, bc, paid) ==
    IF aturn
    THEN [a_chips |-> ac - paid, b_chips |-> bc + paid, a_first |-> TRUE]
    ELSE [a_chips |-> ac + paid, b_chips |-> bc - paid, a_first |-> FALSE]

\* the fold branch of playRound: the folder pays, the other side acts first next
FoldResolution(aturn, ac, bc, paid) ==
    IF aturn
    THEN [a_chips |-> ac - paid, b_chips |-> bc + paid, a_first |-> FALSE]
    ELSE [a_chips |-> ac + paid, b_chips |-> bc - paid, a_first |-> TRUE]

\* the reveal with the loser's debit forgotten
ShowdownResolutionNoDebit(winner, ac, bc, bet) ==
    IF winner = "A_WIN"
    THEN [a_chips |-> ac + bet, b_chips |-> bc, a_first |-> TRUE]
    ELSE [a_chips |-> ac, b_chips |-> bc + bet, a_first |-> FALSE]

\* the reveal with a_first set to True in both branches
ShowdownResolutionAFirst(winner, ac, bc, bet) ==
    IF winner = "A_WIN"
    THEN [a_chips |-> ac + bet, b_chips |-> bc - bet, a_first |-> TRUE]
    ELSE [a_chips |-> ac - bet, b_chips |-> bc + bet, a_first |-> TRUE]

\* the reveal of playRound: A is paid on A_WIN, B is paid otherwise
ShowdownResolution(winner, ac, bc, bet) ==
    IF winner = "A_WIN"
    THEN [a_chips |-> ac + bet, b_chips |-> bc - bet, a_first |-> TRUE]
    ELSE [a_chips |-> ac - bet, b_chips |-> bc + bet, a_first |-> FALSE]

\* the returned pair with the cap test slipped to >
GameResultStrictCap(len, maxlen, ac) ==
    IF len > maxlen THEN <<5, 5>>
    ELSE IF ac > 0 THEN <<10, 0>>
    ELSE <<0, 10>>

\* the point pair playGame returns, in tenths
GameResult(len, maxlen, ac) ==
    IF len >= maxlen THEN <<5, 5>>
    ELSE IF ac > 0 THEN <<10, 0>>
    ELSE <<0, 10>>

\* ------------------------------------------------------------------- state
VARIABLES
    blind, starting_chips, max_length,   \* constructor parameters of the game
    a_chips, b_chips, a_first,           \* fields of IPGame
    length, pc, result,                  \* playGame: round counter, position, returned pair
    a_card, b_card, common1, common2,    \* playRound: the dealt cards
    a_bet, b_bet, current_bet,           \* playRound: bets
    a_can_raise, b_can_raise, a_turn,    \* playRound: flags
    visible_state, agent_bet,            \* the last snapshot built and the bet the agent returned
    actor,                               \* the side that took the last decision of the round
    ended,                               \* how the last round ended: "none", "fold", "showdown"
    level,                               \* the bet level when the last fold was decided
    turns,                               \* the decisions requested so far in the round
    pre                                  \* a_chips, b_chips, a_first when the round started

VARIABLES
    seed, num_games,                     \* fields of IPTournament
    a_points, b_points,                  \* fields of IPTournament: accumulated points, in tenths
    t_pc, t_i,                           \* playTournament: position and loop variable i
    game,                                \* the IPGame playTournament constructed last
    outcome,                             \* the pair playGame returns for the game of each seed
    a_resets, b_resets,                  \* calls of reset received by each agent
    t_resets, t_runs,                    \* calls of IPTournament.reset and of playTournament
    t_start                              \* the totals when playTournament was entered

VARIABLES
    hand, score, s_pc                    \* a call of calculateScore: arguments, result, position

tournVars == <<seed, num_games, a_points, b_points, t_pc, t_i, game, outcome,
               a_resets, b_resets, t_resets, t_runs, t_start>>

scoreVars == <<hand, score, s_pc>>

gameVars == <<blind, starting_chips, max_length, a_chips, b_chips, a_first, length, pc, result>>

roundVars == <<a_card, b_card, common1, common2, a_bet, b_bet, current_bet,
               a_can_raise, b_can_raise, a_turn>>

traceVars == <<visible_state, agent_bet, actor, ended, level, turns, pre>>

vars == <<gameVars, roundVars, traceVars, tournVars, scoreVars>>

\* VisibleState.__init__
VisibleState(c1, c2, other_card, own_chips, others_chips, own_bet, others_bet, other_played) ==
    [common_card_1 |-> c1, common_card_2 |-> c2, other_players_card |-> other_card,
     own_chips |-> own_chips, others_chips |-> others_chips,
     own_current_bet |-> own_bet, others_current_bet |-> others_bet,
     other_played |-> other_played]

NoVisibleState == VisibleState(0, 0, 0, 0, 0, 0, 0, FALSE)

\* A's snapshot with A's own card passed where B's card belongs
VisibleStateAOwnCard(ac, bc, c1, c2, achips, bchips, abet, bbet, acr, bcr) ==
    VisibleState(c1, c2, ac, achips, bchips, abet, bbet, ~bcr)

\* the snapshot playRound builds when it is A's turn, from the round's state
VisibleStateA(ac, bc, c1, c2, achips, bchips, abet, bbet, acr, bcr) ==
    VisibleState(c1, c2, bc, achips, bchips, abet, bbet, ~bcr)

\* the snapshot playRound builds when it is B's turn, from the round's state
VisibleStateB(ac, bc, c1, c2, achips, bchips, abet, bbet, acr, bcr) ==
    VisibleState(c1, c2, ac, bchips, achips, bbet, abet, ~acr)

\* the snapshot handed to the side whose turn it is
Snapshot ==
    IF a_turn
    THEN VisibleStateA(a_card, b_card, common1, common2, a_chips, b_chips,
                       a_bet, b_bet, a_can_raise, b_can_raise)
    ELSE VisibleStateB(a_card, b_card, common1, common2, a_chips, b_chips,
                       a_bet, b_bet, a_can_raise, b_can_raise)

\* no tournament is under way
NoTournament ==
    /\ seed = 0 /\ num_games = 0
    /\ a_points = 0 /\ b_points = 0
    /\ t_pc = "none" /\ t_i = 0
    /\ game = NoGame
    /\ outcome = <<>>
    /\ a_resets = 0 /\ b_resets = 0 /\ t_resets = 0 /\ t_runs = 0
    /\ t_start = [a_points |-> 0, b_points |-> 0]

\* no call of calculateScore is under way
NoScoring == hand = <<0, 0, 0>> /\ score = 0 /\ s_pc = "none"

\* IPGame.__init__
GameInit ==
    /\ blind \in 1..MaxBlind
    /\ starting_chips \in blind..MaxChips
    /\ max_length \in 1..MaxLen
    /\ a_first \in BOOLEAN
    /\ a_chips = starting_chips
    /\ b_chips = starting_chips
    /\ length = 0
    /\ pc = "loop"
    /\ result = <<0, 0>>
    /\ a_card = 0 /\ b_card = 0 /\ common1 = 0 /\ common2 = 0
    /\ a_bet = 0 /\ b_bet = 0 /\ current_bet = 0
    /\ a_can_raise = FALSE /\ b_can_raise = FALSE /\ a_turn = FALSE
    /\ visible_state = NoVisibleState
    /\ agent_bet = 0
    /\ actor = "none"
    /\ ended = "none"
    /\ level = 0
    /\ turns = 0
    /\ pre = [a_chips |-> starting_chips, b_chips |-> starting_chips, a_first |-> a_first]

\* a freshly constructed game, on its own
Init == GameInit /\ NoTournament /\ NoScoring

\* the loop condition of playGame
LoopCond == a_chips > 0 /\ b_chips > 0 /\ length < max_length

\* playGame enters playRound: the deal and the blinds
Deal ==
    /\ pc = "loop"
    /\ LoopCond
    /\ \E ac \in DealtRanks, bc \in DealtRanks, c1 \in DealtRanks, c2 \in DealtRanks :
          /\ a_card' = ac
          /\ b_card' = bc
          /\ common1' = c1
          /\ common2' = c2
    /\ a_bet' = blind
    /\ b_bet' = blind
    /\ current_bet' = blind
    /\ a_can_raise' = TRUE
    /\ b_can_raise' = TRUE
    /\ a_turn' = a_first
    /\ pc' = "round"
    /\ visible_state' = NoVisibleState
    /\ agent_bet' = 0
    /\ actor' = "none"
    /\ ended' = "none"
    /\ level' = 0
    /\ turns' = 0
    /\ pre' = [a_chips |-> a_chips, b_chips |-> b_chips, a_first |-> a_first]
    /\ UNCHANGED <<blind, starting_chips, max_length, a_chips, b_chips, a_first, length, result>>
    /\ UNCHANGED <<tournVars, scoreVars>>

\* one decision of the betting loop, the agent returning bet, that ends the
\* round in a fold
FoldOn(bet) ==
    /\ pc = "round"
    /\ a_can_raise \/ b_can_raise
    /\    LET proposed_bet == AllIn(bet, a_chips, b_chips)
              score_a == calculateScore(a_card, common1, common2)
              score_b == calculateScore(b_card, common1, common2)
              paid == IF a_turn THEN current_bet + FoldPenalty(score_a, score_b)
                                ELSE current_bet + FoldPenalty(score_b, score_a)
          IN  /\ proposed_bet < current_bet
              /\ agent_bet' = bet
              /\ current_bet' = paid
              /\ a_chips' = FoldResolution(a_turn, a_chips, b_chips, paid).a_chips
              /\ b_chips' = FoldResolution(a_turn, a_chips, b_chips, paid).b_chips
              /\ a_first' = FoldResolution(a_turn, a_chips, b_chips, paid).a_first
    /\ visible_state' = Snapshot
    /\ actor' = IF a_turn THEN "A" ELSE "B"
    /\ ended' = "fold"
    /\ level' = current_bet
    /\ turns' = turns + 1
    /\ length' = length + 1
    /\ pc' = "loop"
    /\ UNCHANGED <<blind, starting_chips, max_length, result, pre,
                   a_card, b_card, common1, common2, a_bet, b_bet,
                   a_can_raise, b_can_raise, a_turn>>
    /\ UNCHANGED <<tournVars, scoreVars>>

\* a decision of an agent that may return any bet, ending the round in a fold
Fold == \E bet \in 0..MaxBet : FoldOn(bet)

\* one decision of the betting loop, the agent returning bet, that is a raise
\* or a call
RaiseOrCallOn(bet) ==
    /\ pc = "round"
    /\ a_can_raise \/ b_can_raise
    /\    LET proposed_bet == AllIn(bet, a_chips, b_chips)
          IN  /\ ~(proposed_bet < current_bet)
              /\ agent_bet' = bet
              /\ IF a_turn
                 THEN /\ a_bet' = proposed_bet
                      /\ b_bet' = b_bet
                      /\ a_turn' = FALSE
                      /\ a_can_raise' = FALSE
                      /\ b_can_raise' = IsRaise(proposed_bet, current_bet)
                 ELSE /\ b_bet' = proposed_bet
                      /\ a_bet' = a_bet
                      /\ a_turn' = TRUE
                      /\ b_can_raise' = FALSE
                      /\ a_can_raise' = IsRaise(proposed_bet, current_bet)
              /\ current_bet' = Max(current_bet, Max(a_bet', b_bet'))
    /\ visible_state' = Snapshot
    /\ actor' = IF a_turn THEN "A" ELSE "B"
    /\ turns' = turns + 1
    /\ UNCHANGED <<gameVars, a_card, b_card, common1, common2, ended, level, pre>>
    /\ UNCHANGED <<tournVars, scoreVars>>

\* a decision of an agent that may return any bet, raising or calling
RaiseOrCall == \E bet \in 0..MaxBet : RaiseOrCallOn(bet)

\* the betting loop is over: reveal and pay
Showdown ==
    /\ pc = "round"
    /\ ~(a_can_raise \/ b_can_raise)
    /\ LET winner == showdown(a_card, b_card, common1, common2)
           paid == ShowdownResolution(winner, a_chips, b_chips, a_bet)
       IN  /\ a_chips' = paid.a_chips
           /\ b_chips' = paid.b_chips
           /\ a_first' = paid.a_first
    /\ ended' = "showdown"
    /\ length' = length + 1
    /\ pc' = "loop"
    /\ UNCHANGED <<blind, starting_chips, max_length, result, roundVars,
                   visible_state, agent_bet, actor, level, turns, pre>>
    /\ UNCHANGED <<tournVars, scoreVars>>

\* playGame leaves its loop and returns the point pair
Return ==
    /\ pc = "loop"
    /\ ~LoopCond
    /\ result' = GameResult(length, max_length, a_chips)
    /\ pc' = "done"
    /\ UNCHANGED <<blind, starting_chips, max_length, a_chips, b_chips, a_first, length,
                   roundVars, traceVars>>
    /\ UNCHANGED <<tournVars, scoreVars>>

Next ==
    \/ Deal
    \/ Fold
    \/ RaiseOrCall
    \/ Showdown
    \/ Return

Spec == Init /\ [][Next]_vars

\* -------------------------------------------------------------- tournament
\* the pairs playGame can return
Outcomes == { GameResult(len, 1, ac) : len \in 0..1, ac \in 0..1 }

\* IPTournament.__init__, with the game each seed will produce
NewTournament ==
    /\ seed \in 0..MaxSeed
    /\ num_games \in 0..MaxGames
    /\ outcome \in [seed..(seed + num_games - 1) -> Outcomes]
    /\ a_points = 0
    /\ b_points = 0
    /\ t_pc = "idle"
    /\ t_i = 0
    /\ game = NoGame
    /\ a_resets = 0 /\ b_resets = 0 /\ t_resets = 0 /\ t_runs = 0
    /\ t_start = [a_points |-> 0, b_points |-> 0]

\* no game is modelled round by round
NoRounds ==
    /\ blind = 0 /\ starting_chips = 0 /\ max_length = 0
    /\ a_chips = 0 /\ b_chips = 0 /\ a_first = FALSE
    /\ length = 0 /\ pc = "none" /\ result = <<0, 0>>
    /\ a_card = 0 /\ b_card = 0 /\ common1 = 0 /\ common2 = 0
    /\ a_bet = 0 /\ b_bet = 0 /\ current_bet = 0
    /\ a_can_raise = FALSE /\ b_can_raise = FALSE /\ a_turn = FALSE
    /\ visible_state = NoVisibleState
    /\ agent_bet = 0 /\ actor = "none" /\ ended = "none" /\ level = 0 /\ turns = 0
    /\ pre = [a_chips |-> 0, b_chips |-> 0, a_first |-> FALSE]

\* a freshly constructed tournament, its games summarised by the pairs they return
TournamentInit == NewTournament /\ NoRounds /\ NoScoring

\* IPTournament.reset
Reset ==
    /\ t_pc \in {"idle", "done"}
    /\ t_resets < MaxResets
    /\ a_resets' = a_resets + 1
    /\ b_resets' = b_resets + 1
    /\ a_points' = 0
    /\ b_points' = 0
    /\ t_resets' = t_resets + 1
    /\ t_pc' = "idle"
    /\ UNCHANGED <<seed, num_games, t_i, game, outcome, t_runs, t_start>>
    /\ UNCHANGED <<gameVars, roundVars, traceVars, scoreVars>>

\* playTournament is entered: i starts at seed
StartTournament ==
    /\ t_pc \in {"idle", "done"}
    /\ t_runs < MaxRuns
    /\ t_i' = seed
    /\ t_pc' = "loop"
    /\ t_runs' = t_runs + 1
    /\ t_start' = [a_points |-> a_points, b_points |-> b_points]
    /\ UNCHANGED <<seed, num_games, a_points, b_points, game, outcome,
                   a_resets, b_resets, t_resets>>
    /\ UNCHANGED <<gameVars, roundVars, traceVars, scoreVars>>

\* playTournament constructs the game of seed i
CreateGame ==
    /\ t_pc = "loop"
    /\ t_i < seed + num_games
    /\ game' = NewGame(t_i, AFirstFor(t_i))
    /\ t_pc' = "game"
    /\ UNCHANGED <<seed, num_games, a_points, b_points, t_i, outcome,
                   a_resets, b_resets, t_resets, t_runs, t_start>>
    /\ UNCHANGED <<gameVars, roundVars, traceVars, scoreVars>>

\* playTournament plays the game and adds the pair it returns to the totals
PlayGame ==
    /\ t_pc = "game"
    /\ a_points' = AddPoints(a_points, outcome[t_i][1])
    /\ b_points' = AddPoints(b_points, outcome[t_i][2])
    /\ t_i' = t_i + 1
    /\ t_pc' = "loop"
    /\ UNCHANGED <<seed, num_games, game, outcome,
                   a_resets, b_resets, t_resets, t_runs, t_start>>
    /\ UNCHANGED <<gameVars, roundVars, traceVars, scoreVars>>

\* the range of playTournament is exhausted: it returns
EndTournament ==
    /\ t_pc = "loop"
    /\ ~(t_i < seed + num_games)
    /\ t_pc' = "done"
    /\ UNCHANGED <<seed, num_games, a_points, b_points, t_i, game, outcome,
                   a_resets, b_resets, t_resets, t_runs, t_start>>
    /\ UNCHANGED <<gameVars, roundVars, traceVars, scoreVars>>

TournamentNext ==
    \/ Reset
    \/ StartTournament
    \/ CreateGame
    \/ PlayGame
    \/ EndTournament

TournamentSpec == TournamentInit /\ [][TournamentNext]_vars

\* ------------------------------------------------------------------ scorer
\* a call of calculateScore on any three ranks of the deck
ScorerInit ==
    /\ hand \in Ranks \X Ranks \X Ranks
    /\ score = 0
    /\ s_pc = "call"
    /\ NoRounds
    /\ NoTournament

\* calculateScore returns
Score ==
    /\ s_pc = "call"
    /\ score' = calculateScore(hand[1], hand[2], hand[3])
    /\ s_pc' = "done"
    /\ UNCHANGED <<hand, gameVars, roundVars, traceVars, tournVars>>

ScorerNext == Score

ScorerSpec == ScorerInit /\ [][ScorerNext]_vars

\* ------------------------------------- agents that always bet the bet level
\* the clamped bet of an agent that returns the current bet level is folded
CallerFold == FoldOn(current_bet)

\* an agent that returns the current bet level calls
CallerCall == RaiseOrCallOn(current_bet)

NextCallers ==
    \/ Deal
    \/ CallerFold
    \/ CallerCall
    \/ Showdown
    \/ Return

CallersSpec == Init /\ [][NextCallers]_vars

\* ------------------------------------------------------------------ claims
\* the scores of the two hands of the round
ScoreA == calculateScore(a_card, common1, common2)

ScoreB == calculateScore(b_card, common1, common2)

\* a round has been resolved and no later round has started
RoundOver == pc \in {"loop", "done"} /\ ended # "none"

\* C1: a round that ends in a showdown, or in a fold that carries no penalty,
\* leaves a_chips + b_chips as it was when the round started.
C1_ChipConservation ==
    (RoundOver /\ (ended = "showdown" \/ (ended = "fold" /\ current_bet = level)))
        => a_chips + b_chips = pre.a_chips + pre.b_chips

\* a showdown after a raise has moved chips
C1_Witness ==
    /\ RoundOver
    /\ ended = "showdown"
    /\ a_bet > blind
    /\ a_chips # pre.a_chips

\* C2: on a fold the folder loses, and the opponent gains, exactly the bet level
\* at the fold plus p, where p is 10 for a folder's score above 20, 5 for a
\* score in 11..20, 0 for a score of at most 10, and 0 whenever the folder's
\* score does not strictly exceed the opponent's.
C2_FoldTransfer ==
    (RoundOver /\ ended = "fold") =>
        LET own == IF actor = "A" THEN ScoreA ELSE ScoreB
            other == IF actor = "A" THEN ScoreB ELSE ScoreA
            band == IF own > 20 THEN 10 ELSE IF own >= 11 THEN 5 ELSE 0
            p == IF own > other THEN band ELSE 0
        IN  /\ actor \in {"A", "B"}
            /\ actor = "A" => /\ pre.a_chips - a_chips = level + p
                              /\ b_chips - pre.b_chips = level + p
            /\ actor = "B" => /\ pre.b_chips - b_chips = level + p
                              /\ a_chips - pre.a_chips = level + p

\* B folds a pair that beats A's hand and pays five chips on top of the level
C2_Witness ==
    /\ RoundOver
    /\ ended = "fold"
    /\ actor = "B"
    /\ ScoreB > ScoreA
    /\ ScoreB \in 11..20
    /\ pre.b_chips - b_chips = level + 5

\* C3: after the resolution of every round both stacks are at least 0.
C3_ChipsNonNegative ==
    RoundOver => (a_chips >= 0 /\ b_chips >= 0)

\* C4: when playGame returns with a stack at or below 0, the side whose stack
\* is above 0 gets 1.0 and the other 0.0; (0.5, 0.5) is returned only when the
\* round limit was reached with both stacks above 0.
C4_EliminationResult ==
    pc = "done" =>
        /\ (a_chips <= 0 \/ b_chips <= 0)
              => result = (IF a_chips > 0 THEN <<10, 0>> ELSE <<0, 10>>)
        /\ result = <<5, 5>>
              => (length >= max_length /\ a_chips > 0 /\ b_chips > 0)

\* C5: playGame plays at most max_length rounds; when the round counter
\* reaches max_length the pair returned is (0.5, 0.5); the two points
\* returned always sum to 1.0.
C5_RoundCap ==
    /\ length <= max_length
    /\ pc = "done" =>
          /\ length >= max_length => result = <<5, 5>>
          /\ result[1] + result[2] = 10

\* playGame has returned after playing max_length rounds
C5_Witness ==
    /\ pc = "done"
    /\ length = max_length
    /\ ended # "none"

\* C6 as stated: a drawn showdown moves the bet from the side that acted
\* first in the round to the side that acted second.
C6_DrawPaysSecondToAct ==
    (RoundOver /\ ended = "showdown" /\ ScoreA = ScoreB) =>
        IF pre.a_first
        THEN a_chips = pre.a_chips - a_bet /\ b_chips = pre.b_chips + a_bet
        ELSE b_chips = pre.b_chips - a_bet /\ a_chips = pre.a_chips + a_bet

\* C6 amended: a drawn showdown moves a_bet (at least one chip) from side A to
\* side B, whichever side acted first in the round.
C6_DrawPaysB ==
    (RoundOver /\ ended = "showdown" /\ ScoreA = ScoreB) =>
        /\ a_bet >= 1
        /\ a_chips = pre.a_chips - a_bet
        /\ b_chips = pre.b_chips + a_bet

\* a drawn showdown of a round in which B acted first
C6_Witness ==
    /\ RoundOver
    /\ ended = "showdown"
    /\ ScoreA = ScoreB
    /\ ~pre.a_first
    /\ b_chips > pre.b_chips

\* C7: after every round a_first designates the side that received chips in
\* it: the side that did not fold after a fold, the side that was paid the bet
\* after a showdown.
C7_PaidSideActsFirst ==
    RoundOver =>
        /\ a_first <=> a_chips > pre.a_chips
        /\ ~a_first <=> b_chips > pre.b_chips
        /\ ended = "fold" => (a_first <=> actor = "B")

\* A, first to act, folds: B is paid and acts first in the next round
C7_Witness ==
    /\ RoundOver
    /\ ended = "fold"
    /\ actor = "A"
    /\ pre.a_first
    /\ ~a_first
    /\ b_chips > pre.b_chips

\* C8 as stated: a_first after a round is the negation of a_first before it.
C8_FirstBitFlips ==
    RoundOver => (a_first = ~pre.a_first)

\* C8 amended: a_first after a round differs from a_first before it exactly
\* when the side that was first to act lost chips in the round.
C8_FirstBitFlipsOnLoss ==
    RoundOver =>
        ((a_first # pre.a_first) <=>
            (IF pre.a_first THEN a_chips < pre.a_chips ELSE b_chips < pre.b_chips))

\* the side that acted first is paid and acts first again
C8_Witness ==
    /\ RoundOver
    /\ a_first = pre.a_first
    /\ (IF a_first THEN a_chips > pre.a_chips ELSE b_chips > pre.b_chips)

\* C9: the snapshot handed to the acting side holds the community cards, the
\* other side's card, the acting side's stack and bet as own_*, the other
\* side's as others_*, and is the same whatever the acting side's own card is.
C9_OwnCardHidden ==
    [][ (pc = "round" /\ (a_can_raise \/ b_can_raise)) =>
          /\ a_turn =>
                /\ actor' = "A"
                /\ visible_state' =
                      [common_card_1 |-> common1, common_card_2 |-> common2,
                       other_players_card |-> b_card,
                       own_chips |-> a_chips, others_chips |-> b_chips,
                       own_current_bet |-> a_bet, others_current_bet |-> b_bet,
                       other_played |-> ~b_can_raise]
                /\ \A own \in Ranks :
                      visible_state' =
                          VisibleStateA(own, b_card, common1, common2, a_chips, b_chips,
                                        a_bet, b_bet, a_can_raise, b_can_raise)
          /\ ~a_turn =>
                /\ actor' = "B"
                /\ visible_state' =
                      [common_card_1 |-> common1, common_card_2 |-> common2,
                       other_players_card |-> a_card,
                       own_chips |-> b_chips, others_chips |-> a_chips,
                       own_current_bet |-> b_bet, others_current_bet |-> a_bet,
                       other_played |-> ~a_can_raise]
                /\ \A own \in Ranks :
                      visible_state' =
                          VisibleStateB(a_card, own, common1, common2, a_chips, b_chips,
                                        a_bet, b_bet, a_can_raise, b_can_raise)
    ]_vars

\* A has taken a decision on a snapshot that shows B's card, which is not A's
C9_Witness ==
    /\ pc = "round"
    /\ actor = "A"
    /\ a_card # b_card
    /\ visible_state.other_players_card = b_card
    /\ visible_state.own_chips = a_chips

\* C10: a decision whose bet is at least the current bet level is never
\* resolved as a fold; a round is folded only on a bet below the level.
C10_FoldOnlyBelowLevel ==
    (RoundOver /\ ended = "fold") => agent_bet < level

\* C11: when the betting loop exits to the showdown both sides have committed
\* the current bet (a_bet = b_bet = current_bet), and in a showdown with
\* unequal scores the higher-scoring side receives exactly that amount from
\* the lower-scoring side.
C11_ShowdownPaysMatchedBet ==
    /\ (pc = "round" /\ ~(a_can_raise \/ b_can_raise))
          => (a_bet = b_bet /\ a_bet = current_bet)
    /\ (RoundOver /\ ended = "showdown")
          => /\ a_bet = b_bet /\ a_bet = current_bet
             /\ ScoreA > ScoreB => /\ a_chips = pre.a_chips + current_bet
                                   /\ b_chips = pre.b_chips - current_bet
             /\ ScoreB > ScoreA => /\ b_chips = pre.b_chips + current_bet
                                   /\ a_chips = pre.a_chips - current_bet

\* A wins a showdown after the bet was raised above the blind
C11_Witness ==
    /\ RoundOver
    /\ ended = "showdown"
    /\ ScoreA > ScoreB
    /\ b_bet > blind
    /\ a_chips = pre.a_chips + b_bet

\* C12: with two agents that always return the current bet level, every round
\* ends in a showdown after at most two decisions, each side having made one
\* call.
C12_CallersShowdownInTwo ==
    RoundOver =>
        /\ ended = "showdown"
        /\ turns <= 2
        /\ turns = 2

\* the games of the current call of playTournament constructed so far
GamesCreated == IF t_pc = "game" THEN t_i - seed + 1 ELSE t_i - seed

\* C13 as stated: the game at 0-based offset k from the starting seed is
\* constructed with A first to act exactly when k is even, for every seed.
C13_AFirstOnEvenOffset ==
    (t_pc \in {"loop", "game", "done"} /\ GamesCreated >= 1) =>
        (game.a_first <=> (GamesCreated - 1) % 2 = 0)

\* C13 amended: the game at 0-based offset k from the starting seed has seed
\* seed + k and is constructed with A first to act exactly when seed + k is
\* even, so the first mover alternates from one game to the next, starting
\* with A for an even starting seed and with B for an odd one.
C13_AFirstOnEvenSeed ==
    (t_pc \in {"loop", "game", "done"} /\ GamesCreated >= 1) =>
        LET k == GamesCreated - 1
        IN  /\ game.seed = seed + k
            /\ game.a_first <=> (seed + k) % 2 = 0
            /\ game.a_first <=> (IF seed % 2 = 0 THEN k % 2 = 0 ELSE k % 2 = 1)

\* the first game of a tournament of seed 1 is constructed with B first to act
C13_Witness ==
    /\ t_pc = "game"
    /\ seed = 1
    /\ GamesCreated = 1
    /\ game.seed = 1
    /\ ~game.a_first

\* the points of one side (1 for A, 2 for B) over the games of seeds lo..hi
RECURSIVE SeriesPoints(_, _, _)
SeriesPoints(side, lo, hi) ==
    IF lo > hi THEN 0 ELSE outcome[lo][side] + SeriesPoints(side, lo + 1, hi)

\* C17: the totals playTournament leaves are the totals it found plus the
\* sums, over the seeds seed..seed+num_games-1, of the pairs the games of
\* those seeds return, so two runs on fresh tournaments with the same seed
\* and the same games end with the same totals; on a fresh tournament the two
\* totals sum to num_games; reset zeroes both totals and calls reset once on
\* each agent; playTournament neither clears the totals nor resets an agent.
C17_TournamentTotals ==
    /\ a_resets = t_resets
    /\ b_resets = t_resets
    /\ t_pc = "idle" => (a_points = 0 /\ b_points = 0)
    /\ t_pc = "loop" =>
          /\ a_points = t_start.a_points + SeriesPoints(1, seed, t_i - 1)
          /\ b_points = t_start.b_points + SeriesPoints(2, seed, t_i - 1)
    /\ t_pc = "done" =>
          /\ a_points = t_start.a_points + SeriesPoints(1, seed, seed + num_games - 1)
          /\ b_points = t_start.b_points + SeriesPoints(2, seed, seed + num_games - 1)
          /\ (t_start.a_points = 0 /\ t_start.b_points = 0)
                => a_points + b_points = 10 * num_games

\* a second run without a reset in between has added to non-zero totals
C17_Witness ==
    /\ t_pc = "done"
    /\ t_runs = 2
    /\ t_resets = 0
    /\ num_games >= 2
    /\ a_points > SeriesPoints(1, seed, seed + num_games - 1)
    /\ b_points > 0

\* the three cards of the scored hand, as a set
HandSet == {hand[1], hand[2], hand[3]}

\* the plain runs {n, n+1, n+2}
PlainRuns == { {n, n + 1, n + 2} : n \in 1..8 }

\* the two wrap-around straights
WrapRuns == { {1, 9, 10}, {1, 2, 10} }

\* C14: calculateScore returns a score for every three ranks; exchanging the
\* community cards does not change it; every arrangement of {1,9,10} scores
\* 21, of {1,2,10} 22, of a plain run {n,n+1,n+2} 22+n; a triple scores 20+c,
\* a pair of the private card with exactly one community card 10+c, and any
\* other hand c.
C14_ScoreTable ==
    s_pc = "done" =>
        LET c == hand[1]
            x == hand[2]
            y == hand[3]
        IN  /\ score \in 1..30
            /\ score = calculateScore(c, y, x)
            /\ HandSet = {1, 9, 10} => score = 21
            /\ HandSet = {1, 2, 10} => score = 22
            /\ \A n \in 1..8 : HandSet = {n, n + 1, n + 2} => score = 22 + n
            /\ (c = x /\ x = y) => score = 20 + c
            /\ ((c = x) # (c = y)) => score = 10 + c
            /\ (HandSet \notin (PlainRuns \cup WrapRuns) /\ c # x /\ c # y) => score = c

\* an arrangement of the wrap-around straight {1,2,10} has been scored 22
C14_Witness ==
    /\ s_pc = "done"
    /\ hand = <<10, 1, 2>>
    /\ score = 22

\* C15 as stated: both wrap-around straights score strictly higher than the
\* plain run ending at 9, and {1,2,10} scores strictly higher than {1,9,10}.
C15_WrapAboveRunTo9 ==
    s_pc = "done" =>
        /\ HandSet \in WrapRuns => score > calculateScore(7, 8, 9)
        /\ HandSet = {1, 2, 10} => score > calculateScore(1, 9, 10)

\* C15 amended: both wrap-around straights score strictly lower than every
\* plain run, the run ending at 9 included, and {1,2,10} scores strictly
\* higher than {1,9,10}.
C15_WrapBelowPlainRuns ==
    s_pc = "done" =>
        /\ HandSet \in WrapRuns =>
              /\ score < calculateScore(7, 8, 9)
              /\ \A n \in 1..8 : score < calculateScore(n, n + 1, n + 2)
        /\ HandSet = {1, 2, 10} =>
              /\ score > calculateScore(1, 9, 10)
              /\ score > calculateScore(9, 10, 1)
              /\ score > calculateScore(10, 1, 9)
        /\ HandSet = {1, 9, 10} => score < calculateScore(1, 2, 10)

\* the wrap-around straight {1,9,10} has been scored below the run {7,8,9}
C15_Witness ==
    /\ s_pc = "done"
    /\ HandSet = {1, 9, 10}
    /\ score = 21
    /\ calculateScore(7, 8, 9) = 29

\* C16 as stated: the score is the same for every permutation of the three
\* arguments.
C16_ScorePermutationInvariant ==
    s_pc = "done" =>
        LET c == hand[1]
            x == hand[2]
            y == hand[3]
        IN  /\ score = calculateScore(c, y, x)
            /\ score = calculateScore(x, c, y)
            /\ score = calculateScore(x, y, c)
            /\ score = calculateScore(y, c, x)
            /\ score = calculateScore(y, x, c)

\* C16 amended: the score is unchanged when the two community cards are
\* exchanged, and for a straight or a triple (a score above 20) it is the same
\* for every permutation of the three arguments; for other hands moving the
\* private card into a community position can change the score.
C16_ScoreCommunitySymmetric ==
    s_pc = "done" =>
        LET c == hand[1]
            x == hand[2]
            y == hand[3]
        IN  /\ score = calculateScore(c, y, x)
            /\ score > 20 =>
                  /\ score = calculateScore(x, c, y)
                  /\ score = calculateScore(x, y, c)
                  /\ score = calculateScore(y, c, x)
                  /\ score = calculateScore(y, x, c)

\* a hand whose score changes when the private card moves: (1,2,2) scores 1
\* and (2,1,2) scores 12
C16_Witness ==
    /\ s_pc = "done"
    /\ hand = <<1, 2, 2>>
    /\ score = 1
    /\ calculateScore(2, 1, 2) = 12

\* C18: in a round the first decision is asked of the first-to-act side and
\* the sides then alternate; the side asked has its can_raise flag true, and
\* after the first decision it is the only side whose flag is true; a flag is
\* true after a decision only if the decision was the other side's and its
\* accepted bet strictly exceeded the bet level before it.
C18_AlternationAndFlags ==
    /\ [](pc = "round" =>
            /\ turns = 0 => (a_turn = pre.a_first /\ a_can_raise /\ b_can_raise)
            /\ turns >= 1 => (a_turn <=> actor = "B")
            /\ (turns >= 1 /\ (a_can_raise \/ b_can_raise))
                  => ((a_can_raise <=> a_turn) /\ (b_can_raise <=> ~a_turn)))
    /\ [][ (pc = "round" /\ turns' = turns + 1) =>
              /\ actor' = (IF a_turn THEN "A" ELSE "B")
              /\ IF a_turn THEN a_can_raise ELSE b_can_raise
              /\ pc' = "round" =>
                    /\ a_turn' = ~a_turn
                    /\ b_can_raise' => (a_turn /\ a_bet' > current_bet)
                    /\ a_can_raise' => (~a_turn /\ b_bet' > current_bet)
       ]_vars

\* B has raised over A's raise: only A, about to act, can still raise
C18_Witness ==
    /\ pc = "round"
    /\ turns = 2
    /\ actor = "B"
    /\ a_turn
    /\ a_can_raise
    /\ ~b_can_raise
    /\ b_bet > a_bet
    /\ a_bet > blind

\* C19: in a round that starts with blind <= min(a_chips, b_chips), a decision
\* after which the betting loop continues strictly increases current_bet,
\* current_bet never exceeds min(a_chips, b_chips) while the round is played,
\* and the round asks for at most min(a_chips, b_chips) - blind + 1 decisions.
C19_RoundDecisionBound ==
    /\ []((pc = "round" \/ RoundOver) /\ blind <= Min(pre.a_chips, pre.b_chips)
            => /\ turns <= Min(pre.a_chips, pre.b_chips) - blind + 1
               /\ pc = "round" => /\ current_bet <= Min(a_chips, b_chips)
                                  /\ current_bet >= blind + turns - 1)
    /\ [][ (/\ pc = "round"
            /\ blind <= Min(a_chips, b_chips)
            /\ turns' = turns + 1
            /\ pc' = "round"
            /\ (a_can_raise' \/ b_can_raise'))
              => current_bet' > current_bet
       ]_vars

\* a round that used all its decisions: raises up to the shorter stack, then a
\* last decision
C19_Witness ==
    /\ RoundOver
    /\ blind <= Min(pre.a_chips, pre.b_chips)
    /\ turns = Min(pre.a_chips, pre.b_chips) - blind + 1
    /\ turns >= 3

\* C20: a_chips + b_chips = 2 * starting_chips in every state of a game, also
\* after a fold that carries a penalty of 5 or 10: the penalty leaves the
\* folder's stack and enters the opponent's with the bet.
C20_TotalChipsConstant ==
    a_chips + b_chips = 2 * starting_chips

\* a fold with a penalty of 10 has been paid and the opponent holds the bet
\* level and the penalty on top of its stack
C20_Witness ==
    /\ RoundOver
    /\ ended = "fold"
    /\ actor = "A"
    /\ current_bet = level + 10
    /\ b_chips = pre.b_chips + level + 10

====
